---- MODULE Spec2Model ----
(***************************************************************************)
(* Model of src/src/chrono.rs: the conversions of the crate's parsed       *)
(* ISO-8601 values (Date, Time, DateTime, Duration) into chrono values     *)
(* (NaiveDate, NaiveTime, DateTime<FixedOffset>, TimeDelta).               *)
(*                                                                         *)
(* Every conversion is a pure function.  A behaviour draws one call (the   *)
(* method and its argument) in Init and the action of that method applies  *)
(* it, leaving the outcome in res.                                         *)
(*                                                                         *)
(* Values:                                                                 *)
(*   Option / Result  records with a field tag: "Some"/"None", "Ok"/"Err"; *)
(*                    a panic (unwrap on Err, arithmetic overflow with     *)
(*                    overflow checks on) is the outcome tag "Panic".      *)
(*   NaiveDate        [year, ordinal], as chrono stores it.                *)
(*   NaiveTime        [secs] seconds since midnight, as chrono stores it.  *)
(*   DateTime<Fixed>  [datetime (UTC, naive), offset], as chrono stores it.*)
(*   u64 / i64 secs   five base-10000 digits, most significant first       *)
(*                    (the model checker's integers are 32 bits wide).     *)
(***************************************************************************)
EXTENDS Integers, Sequences, FiniteSets

VARIABLES pc, call, arg, res

vars == <<pc, call, arg, res>>

(***************************************************************************)
(* Bounds of the model.                                                    *)
(***************************************************************************)
\* years drawn around each anchor year: anchor - YearSpan .. anchor + YearSpan
YearSpan == 1
\* how far past the legal range a month, day, week, weekday, ordinal,
\* hour, minute or second is drawn
Slack == 1
\* seconds drawn around each anchor of the duration's range
Near == 1

(***************************************************************************)
(* chrono's constants.                                                     *)
(***************************************************************************)
\* chrono::NaiveDate::MIN.year() and MAX.year()
MIN_YEAR == -262143
MAX_YEAR == 262142
\* chrono::FixedOffset::east_opt accepts -86_400 < secs < 86_400
SECS_PER_DAY == 86400

None == [tag |-> "None"]
Some(v) == [tag |-> "Some", val |-> v]
Err == [tag |-> "Err"]
Ok(v) == [tag |-> "Ok", val |-> v]
Panic == [tag |-> "Panic"]

\* Option::ok_or(())
ok_or(maybe) == IF maybe.tag = "Some" THEN Ok(maybe.val) ELSE Err

\* Result::ok()
ok(result) == IF result.tag = "Ok" THEN Some(result.val) ELSE None

(***************************************************************************)
(* chrono::NaiveDate                                                       *)
(***************************************************************************)
is_leap_year(year) == year % 4 = 0 /\ (year % 100 # 0 \/ year % 400 = 0)

\* YearFlags::ndays
ndays(year) == IF is_leap_year(year) THEN 366 ELSE 365

\* days of the year before the first of `month` (month in 1..13)
days_before_month(year, month) ==
    LET cum == <<0, 31, 59, 90, 120, 151, 181, 212, 243, 273, 304, 334, 365>>
    IN  cum[month] + (IF month > 2 /\ is_leap_year(year) THEN 1 ELSE 0)

days_in_month(year, month) ==
    days_before_month(year, month + 1) - days_before_month(year, month)

\* weekday of January 1st counted from Monday = 0 (what YearFlags encodes)
jan1_weekday(year) ==
    LET p == year - 1
    IN  (365 * p + (p \div 4) - (p \div 100) + (p \div 400)) % 7

\* YearFlags::isoweek_delta: ordinal = week * 7 + weekday - delta
isoweek_delta(year) ==
    LET w == jan1_weekday(year) IN IF w <= 3 THEN 6 + w ELSE w - 1

\* YearFlags::nisoweeks
nisoweeks(year) ==
    LET w == jan1_weekday(year)
    IN  IF w = 3 \/ (w = 2 /\ is_leap_year(year)) THEN 53 ELSE 52

\* NaiveDate::from_ordinal_and_flags: the year and the ordinal are checked
from_ordinal_and_flags(year, ordinal) ==
    IF year < MIN_YEAR \/ year > MAX_YEAR \/ ordinal < 1 \/ ordinal > ndays(year)
    THEN None
    ELSE Some([year |-> year, ordinal |-> ordinal])

\* chrono::NaiveDate::from_ymd_opt(year: i32, month: u32, day: u32)
from_ymd_opt(year, month, day) ==
    IF month < 1 \/ month > 12 \/ day < 1 \/ day > 31 THEN None
    ELSE IF day > days_in_month(year, month) THEN None
    ELSE from_ordinal_and_flags(year, days_before_month(year, month) + day)

\* chrono::NaiveDate::from_yo_opt(year: i32, ordinal: u32)
from_yo_opt(year, ddd) == from_ordinal_and_flags(year, ddd)

\* <chrono::Weekday as num_traits::FromPrimitive>::from_u32: 0 is Mon ... 6 is
\* Sun; a Weekday is modelled by its num_days_from_monday()
Weekday_from_u32(d) == IF d >= 0 /\ d <= 6 THEN Some(d) ELSE None

\* chrono::NaiveDate::from_isoywd_opt(year: i32, week: u32, weekday: Weekday)
from_isoywd_opt(year, week, weekday) ==
    IF week = 0 \/ week > nisoweeks(year) THEN None
    ELSE LET weekord == week * 7 + weekday
             delta == isoweek_delta(year)
         IN  IF weekord <= delta
             THEN from_ordinal_and_flags(year - 1, weekord + ndays(year - 1) - delta)
             ELSE IF weekord - delta <= ndays(year)
                  THEN from_ordinal_and_flags(year, weekord - delta)
                  ELSE from_ordinal_and_flags(year + 1, weekord - delta - ndays(year))

\* Option::and_then(|d| chrono::NaiveDate::from_isoywd_opt(year, ww, d))
and_then_isoywd(maybe_d, year, ww) ==
    IF maybe_d.tag = "Some" THEN from_isoywd_opt(year, ww, maybe_d.val) ELSE None

\* Datelike::year / month / day of a NaiveDate
NaiveDate_year(date) == date.year

NaiveDate_month(date) ==
    CHOOSE m \in 1..12 :
        /\ days_before_month(date.year, m) < date.ordinal
        /\ date.ordinal <= days_before_month(date.year, m + 1)

NaiveDate_day(date) ==
    date.ordinal - days_before_month(date.year, NaiveDate_month(date))

\* NaiveDate::succ_opt / pred_opt
succ_opt(date) ==
    IF date.ordinal < ndays(date.year)
    THEN Some([year |-> date.year, ordinal |-> date.ordinal + 1])
    ELSE from_ordinal_and_flags(date.year + 1, 1)

pred_opt(date) ==
    IF date.ordinal > 1
    THEN Some([year |-> date.year, ordinal |-> date.ordinal - 1])
    ELSE from_ordinal_and_flags(date.year - 1, ndays(date.year - 1))

(***************************************************************************)
(* impl TryFrom<crate::Date> for chrono::NaiveDate                         *)
(***************************************************************************)
\* a slip: the YMD arm passes day and month in the wrong order
NaiveDate_try_from_day_month(iso) ==
    LET maybe ==
          CASE iso.kind = "YMD" -> from_ymd_opt(iso.year, iso.day, iso.month)
            [] iso.kind = "Week" ->
                 and_then_isoywd(Weekday_from_u32(iso.d), iso.year, iso.ww)
            [] iso.kind = "Ordinal" -> from_yo_opt(iso.year, iso.ddd)
    IN  ok_or(maybe)

NaiveDate_try_from(iso) ==
    LET maybe ==
          CASE iso.kind = "YMD" -> from_ymd_opt(iso.year, iso.month, iso.day)
            [] iso.kind = "Week" ->
                 and_then_isoywd(Weekday_from_u32(iso.d), iso.year, iso.ww)
            [] iso.kind = "Ordinal" -> from_yo_opt(iso.year, iso.ddd)
    IN  ok_or(maybe)

\* crate::Date::into_naive
Date_into_naive(iso) == ok(NaiveDate_try_from(iso))

(***************************************************************************)
(* chrono::NaiveTime and impl TryFrom<crate::Time> for chrono::NaiveTime   *)
(***************************************************************************)
\* chrono::NaiveTime::from_hms_opt(hour: u32, min: u32, sec: u32)
from_hms_opt(hour, min, sec) ==
    IF hour >= 24 \/ min >= 60 \/ sec >= 60 THEN None
    ELSE Some([secs |-> hour * 3600 + min * 60 + sec])

\* Timelike::hour / minute / second of a NaiveTime
NaiveTime_hour(time) == time.secs \div 3600
NaiveTime_minute(time) == (time.secs \div 60) % 60
NaiveTime_second(time) == time.secs % 60

\* a slip: the hour moved to UTC by the offset's hours
NaiveTime_try_from_utc_hour(iso) ==
    ok_or(from_hms_opt(iso.hour - iso.tz_offset_hours, iso.minute, iso.second))

NaiveTime_try_from(iso) == ok_or(from_hms_opt(iso.hour, iso.minute, iso.second))

\* crate::Time::into_naive
Time_into_naive(iso) == ok(NaiveTime_try_from(iso))

(***************************************************************************)
(* i32 arithmetic of the offset: the exact result is kept as               *)
(* q * 65536 + l with 0 <= l < 65536, so that no intermediate value        *)
(* leaves 32 bits; it overflows i32 iff q is outside -32768..32767, and    *)
(* the wrapped (two's complement) result keeps q modulo 65536.             *)
(***************************************************************************)
i32_wrap(q, l) ==
    [overflow |-> q < -32768 \/ q > 32767,
     wrapped |-> (((q + 32768) % 65536) - 32768) * 65536 + l]

\* a * k in i32, for a constant 0 < k < 32768
i32_mul(a, k) ==
    LET lo == (a % 65536) * k
    IN  i32_wrap((a \div 65536) * k + (lo \div 65536), lo % 65536)

\* a + b in i32
i32_add(a, b) ==
    LET lo == (a % 65536) + (b % 65536)
    IN  i32_wrap((a \div 65536) + (b \div 65536) + (lo \div 65536), lo % 65536)

\* let offset_minutes = tz_offset_hours * 3600 + tz_offset_minutes;
offset_minutes_of(tz_offset_hours, tz_offset_minutes) ==
    LET prod == i32_mul(tz_offset_hours, 3600)
        sum == i32_add(prod.wrapped, tz_offset_minutes)
    IN  [overflow |-> prod.overflow \/ sum.overflow, wrapped |-> sum.wrapped]

(***************************************************************************)
(* chrono::FixedOffset, chrono::NaiveDateTime, chrono::DateTime            *)
(***************************************************************************)
\* chrono::FixedOffset::east_opt(secs: i32)
east_opt(secs) ==
    IF -SECS_PER_DAY < secs /\ secs < SECS_PER_DAY
    THEN Some([local_minus_utc |-> secs])
    ELSE None

\* chrono::NaiveDate::and_time
and_time(date, time) == [date |-> date, time |-> time]

\* NaiveDateTime shifted by `shift` seconds, |shift| < 86_400: the time wraps
\* around midnight and the date moves to its successor or predecessor
shift_datetime(dt, shift) ==
    LET total == dt.time.secs + shift
        days == total \div SECS_PER_DAY
        time == [secs |-> total % SECS_PER_DAY]
        date == CASE days = -1 -> pred_opt(dt.date)
                  [] days = 1 -> succ_opt(dt.date)
                  [] OTHER -> Some(dt.date)
    IN  IF date.tag = "Some" THEN Some([date |-> date.val, time |-> time]) ELSE None

\* NaiveDateTime::checked_sub_offset / checked_add_offset
checked_sub_offset(dt, offset) == shift_datetime(dt, -offset.local_minus_utc)
checked_add_offset(dt, offset) == shift_datetime(dt, offset.local_minus_utc)

\* a slip: the local timestamp taken for the UTC one (from_utc_datetime)
from_utc_datetime_single(offset, local) ==
    Some([datetime |-> local, offset |-> offset])

\* TimeZone::from_local_datetime of a FixedOffset, then LocalResult::single:
\* the UTC timestamp is local - offset, and there is none when that leaves
\* NaiveDateTime's range
from_local_datetime_single(offset, local) ==
    LET utc == checked_sub_offset(local, offset)
    IN  IF utc.tag = "Some"
        THEN Some([datetime |-> utc.val, offset |-> offset])
        ELSE None

\* DateTime::naive_local: the stored UTC timestamp plus the offset
naive_local(fxed) == checked_add_offset(fxed.datetime, fxed.offset).val

\* datetime.offset().fix().local_minus_utc()
local_minus_utc(fxed) == fxed.offset.local_minus_utc

(***************************************************************************)
(* impl TryFrom<crate::DateTime> for chrono::DateTime<chrono::FixedOffset> *)
(* The set of outcomes: an overflow of the offset arithmetic panics in a   *)
(* build with overflow checks and wraps in a build without.                *)
(***************************************************************************)
\* the body of try_from once offset_minutes has the value off
try_from_with_offset(iso, off) ==
    LET offset == ok_or(east_opt(off))
        naive_time == NaiveTime_try_from(iso.time)
        naive_date == NaiveDate_try_from(iso.date)
    IN  IF offset.tag = "Err" THEN Err
        ELSE IF naive_time.tag = "Err" THEN Err
        ELSE IF naive_date.tag = "Err" THEN Err
        ELSE ok_or(from_local_datetime_single(
                     offset.val, and_time(naive_date.val, naive_time.val)))

DateTime_try_from(iso) ==
    LET om == offset_minutes_of(iso.time.tz_offset_hours, iso.time.tz_offset_minutes)
    IN  IF om.overflow
        THEN {Panic, try_from_with_offset(iso, om.wrapped)}
        ELSE {try_from_with_offset(iso, om.wrapped)}

\* Result::ok over a panicking call: the panic passes through
ok_or_panic(result) == IF result.tag = "Panic" THEN Panic ELSE ok(result)

\* crate::DateTime::into_fixed_offset
DateTime_into_fixed_offset(iso) == {ok_or_panic(r) : r \in DateTime_try_from(iso)}

\* Option::map(|fxed| fxed.naive_local())
map_naive_local(maybe) ==
    IF maybe.tag = "Some" THEN Some(naive_local(maybe.val)) ELSE maybe

\* a slip: the date and time combined without resolving the offset
DateTime_into_naive_unresolved(iso) ==
    LET date == NaiveDate_try_from(iso.date)
        time == NaiveTime_try_from(iso.time)
    IN  {IF date.tag = "Ok" /\ time.tag = "Ok"
         THEN Some(and_time(date.val, time.val))
         ELSE None}

\* crate::DateTime::into_naive
DateTime_into_naive(iso) == {map_naive_local(m) : m \in DateTime_into_fixed_offset(iso)}

(***************************************************************************)
(* 64-bit seconds: five base-10000 digits, most significant first.         *)
(***************************************************************************)
\* the radix of the digits
BASE == 100 * 100
\* u64::MAX = 18_446_744_073_709_551_615
U64_MAX == <<1844, 6744, 737, 955, 1615>>
\* i64::MAX = 9_223_372_036_854_775_807
I64_MAX == <<922, 3372, 368, 5477, 5807>>
NANOS_PER_SEC == 1000000000

RECURSIVE limbs_cmp(_, _, _)
\* -1, 0, 1 as a < b, a = b, a > b, comparing from digit i on
limbs_cmp(a, b, i) ==
    IF i > Len(a) THEN 0
    ELSE IF a[i] < b[i] THEN -1
    ELSE IF a[i] > b[i] THEN 1
    ELSE limbs_cmp(a, b, i + 1)

limbs_gt(a, b) == limbs_cmp(a, b, 1) = 1

RECURSIVE limbs_div(_, _, _, _)
\* a / k (integer division) for 0 < k < 200_000: long division from digit i
\* on with the remainder rem carried in
limbs_div(a, k, i, rem) ==
    IF i > Len(a) THEN <<>>
    ELSE LET cur == rem * BASE + a[i]
         IN  <<cur \div k>> \o limbs_div(a, k, i + 1, cur % k)

RECURSIVE limbs_add(_, _, _)
\* a + n for a small integer n (of either sign), from digit i down
limbs_add(a, n, i) ==
    IF i = 0 \/ n = 0 THEN a
    ELSE LET cur == a[i] + n
         IN  limbs_add([a EXCEPT ![i] = cur % BASE], cur \div BASE, i - 1)

limbs_of(n) == limbs_add(<<0, 0, 0, 0, 0>>, n, 5)

\* TimeDelta::MAX is i64::MAX milliseconds: secs = i64::MAX / 1000 and
\* nanos = (i64::MAX % 1000) * 1_000_000
TimeDelta_MAX_secs == limbs_div(I64_MAX, 1000, 1, 0)
TimeDelta_MAX_nanos == (I64_MAX[5] % 1000) * 1000000

(***************************************************************************)
(* chrono::TimeDelta and impl TryFrom<crate::Duration> for it              *)
(***************************************************************************)
\* chrono::TimeDelta::new(secs: i64, nanos: u32), for secs >= 0
TimeDelta_new(secs, nanos) ==
    IF \/ limbs_gt(secs, TimeDelta_MAX_secs)
       \/ nanos >= NANOS_PER_SEC
       \/ (secs = TimeDelta_MAX_secs /\ nanos > TimeDelta_MAX_nanos)
    THEN None
    ELSE Some([secs |-> secs, nanos |-> nanos])

\* TimeDelta::num_seconds and the totals derived from it, for secs >= 0
num_seconds(td) == td.secs
num_minutes(td) == limbs_div(num_seconds(td), 60, 1, 0)
num_hours(td) == limbs_div(num_seconds(td), 3600, 1, 0)
num_days(td) == limbs_div(num_seconds(td), 86400, 1, 0)
num_weeks(td) == limbs_div(num_days(td), 7, 1, 0)

\* u64 -> i64: TryInto::try_into
u64_try_into_i64(secs) == IF limbs_gt(secs, I64_MAX) THEN Err ELSE Ok(secs)

\* a slip: the sub-second part dropped
TimeDelta_try_from_whole_secs(cr) ==
    LET secs == u64_try_into_i64(cr.secs)
    IN  IF secs.tag = "Err" THEN Panic
        ELSE ok_or(TimeDelta_new(secs.val, 0))

\* cr is ::core::time::Duration::from(iso): [secs: u64, nanos: u32 < 10^9]
TimeDelta_try_from(cr) ==
    LET secs == u64_try_into_i64(cr.secs)
        nanos == cr.nanos
    IN  IF secs.tag = "Err" THEN Panic
        ELSE ok_or(TimeDelta_new(secs.val, nanos))

(***************************************************************************)
(* The arguments drawn.  crate::Date, crate::Time and crate::DateTime have *)
(* public fields: year and the offsets are i32, the other fields u32.      *)
(***************************************************************************)
AnchorYears == {1900, 2000, 2020, 2023, MIN_YEAR, MAX_YEAR}
Years == UNION {(a - YearSpan)..(a + YearSpan) : a \in AnchorYears}

YMD(year, month, day) == [kind |-> "YMD", year |-> year, month |-> month, day |-> day]
Week(year, ww, d) == [kind |-> "Week", year |-> year, ww |-> ww, d |-> d]
Ordinal(year, ddd) == [kind |-> "Ordinal", year |-> year, ddd |-> ddd]

Dates ==
    {YMD(y, m, d) : y \in Years, m \in 0..(12 + Slack), d \in 0..(31 + Slack)}
    \cup {Week(y, w, d) : y \in Years, w \in 0..(53 + Slack), d \in 0..(7 + Slack)}
    \cup {Ordinal(y, n) : y \in Years, n \in 0..(366 + Slack)}

Time(hour, minute, second, tzh, tzm) ==
    [hour |-> hour, minute |-> minute, second |-> second,
     tz_offset_hours |-> tzh, tz_offset_minutes |-> tzm]

Sixties == {0, 1, 40, 58} \cup 59..(59 + Slack)
Times ==
    {Time(h, m, s, o[1], o[2]) :
        h \in 0..(23 + Slack), m \in Sixties, s \in Sixties,
        o \in {<<0, 0>>, <<1, 23>>, <<-30, 5000>>}}

DateTime(date, time) == [date |-> date, time |-> time]

\* offsets: around zero, around the day on either side, and hours whose
\* product with 3600 leaves 32 bits (596524 * 3600 = 2^31 + 2752,
\* 1193047 * 3600 = 2^32 + 1904)
OffsetHours == {-596524, -24, -23, -1, 0, 1, 23, 24, 596523, 596524, 1193047}
OffsetMinutes ==
    {-86400, -86399, -1440, -60, -59, -1, 0, 1, 23, 59, 60, 1440, 3599,
     86399, 86400, 2147483647}
InstantDates ==
    {YMD(2023, 2, 8), Week(2023, 6, 2), Ordinal(2023, 39), YMD(2023, 2, 30),
     Week(2023, 6, 7), YMD(MAX_YEAR, 12, 31), YMD(MIN_YEAR, 1, 1)}
InstantClocks == {<<23, 40, 0>>, <<0, 0, 0>>, <<23, 59, 59>>, <<23 + Slack, 0, 0>>}
DateTimes ==
    {DateTime(d, Time(c[1], c[2], c[3], h, m)) :
        d \in InstantDates, c \in InstantClocks, h \in OffsetHours, m \in OffsetMinutes}

\* P3Y5M2D as the crate normalises it: (3 * 365 + 5 * 30 + 2) days of seconds
P3Y5M2D_secs == limbs_of(107740800)
AnchorSecs == {limbs_of(0), P3Y5M2D_secs, TimeDelta_MAX_secs, I64_MAX, U64_MAX}
\* cr, the core::time::Duration of line 181: any u64 of seconds around the
\* anchors and a sub-second part below 10^9 nanoseconds
Durations ==
    {[secs |-> limbs_add(a, k, 5), nanos |-> n] :
        a \in AnchorSecs, k \in (-Near)..Near,
        n \in {0, 1, TimeDelta_MAX_nanos, TimeDelta_MAX_nanos + 1, NANOS_PER_SEC - 1}}

Pending == [tag |-> "Pending"]

(***************************************************************************)
(* The state machine: one call per behaviour.                              *)
(***************************************************************************)
Init ==
    /\ pc = "call"
    /\ res = Pending
    /\ \/ call \in {"NaiveDate::try_from", "Date::into_naive"} /\ arg \in Dates
       \/ call \in {"NaiveTime::try_from", "Time::into_naive"} /\ arg \in Times
       \/ /\ call \in {"DateTime::try_from", "DateTime::into_fixed_offset",
                       "DateTime::into_naive"}
          /\ arg \in DateTimes
       \/ /\ call = "TimeDelta::try_from"
          /\ arg \in {d \in Durations :
                        d.secs[1] >= 0 /\ ~limbs_gt(d.secs, U64_MAX)}

\* the call returns (or panics) with one of the outcomes
Return(outcomes) ==
    /\ res' \in outcomes
    /\ pc' = "done"
    /\ UNCHANGED <<call, arg>>

NaiveDateTryFrom ==
    /\ pc = "call" /\ call = "NaiveDate::try_from"
    /\ Return({NaiveDate_try_from(arg)})

DateIntoNaive ==
    /\ pc = "call" /\ call = "Date::into_naive"
    /\ Return({Date_into_naive(arg)})

NaiveTimeTryFrom ==
    /\ pc = "call" /\ call = "NaiveTime::try_from"
    /\ Return({NaiveTime_try_from(arg)})

TimeIntoNaive ==
    /\ pc = "call" /\ call = "Time::into_naive"
    /\ Return({Time_into_naive(arg)})

DateTimeTryFrom ==
    /\ pc = "call" /\ call = "DateTime::try_from"
    /\ Return(DateTime_try_from(arg))

DateTimeIntoFixedOffset ==
    /\ pc = "call" /\ call = "DateTime::into_fixed_offset"
    /\ Return(DateTime_into_fixed_offset(arg))

DateTimeIntoNaive ==
    /\ pc = "call" /\ call = "DateTime::into_naive"
    /\ Return(DateTime_into_naive(arg))

TimeDeltaTryFrom ==
    /\ pc = "call" /\ call = "TimeDelta::try_from"
    /\ Return({TimeDelta_try_from(arg)})

Next ==
    \/ NaiveDateTryFrom
    \/ DateIntoNaive
    \/ NaiveTimeTryFrom
    \/ TimeIntoNaive
    \/ DateTimeTryFrom
    \/ DateTimeIntoFixedOffset
    \/ DateTimeIntoNaive
    \/ TimeDeltaTryFrom

Spec == Init /\ [][Next]_vars

(***************************************************************************)
(* The calendar the claims speak of, stated independently of chrono's      *)
(* (year, ordinal) representation: the proleptic Gregorian calendar by     *)
(* day numbers (days since 1970-01-01) and the ISO 8601 week rule.         *)
(***************************************************************************)
GregorianLeap(y) == (y % 4 = 0 /\ y % 100 # 0) \/ y % 400 = 0

MonthLength(y, m) ==
    CASE m \in {4, 6, 9, 11} -> 30
      [] m = 2 -> IF GregorianLeap(y) THEN 29 ELSE 28
      [] OTHER -> 31

RealGregorianDay(y, m, d) == m \in 1..12 /\ d >= 1 /\ d <= MonthLength(y, m)

YearLength(y) == IF GregorianLeap(y) THEN 366 ELSE 365

\* days from 1970-01-01 to the Gregorian day (y, m, d)
DayNumber(y, m, d) ==
    LET yy == IF m <= 2 THEN y - 1 ELSE y
        era == yy \div 400
        yoe == yy - era * 400
        mp == IF m > 2 THEN m - 3 ELSE m + 9
        doy == ((153 * mp + 2) \div 5) + d - 1
        doe == yoe * 365 + (yoe \div 4) - (yoe \div 100) + doy
    IN  era * 146097 + doe - 719468

\* the Gregorian day <<y, m, d>> of a day number
CivilDay(n) ==
    LET z == n + 719468
        era == z \div 146097
        doe == z - era * 146097
        yoe == (doe - (doe \div 1460) + (doe \div 36524) - (doe \div 146096)) \div 365
        doy == doe - (365 * yoe + (yoe \div 4) - (yoe \div 100))
        mp == (5 * doy + 2) \div 153
        d == doy - ((153 * mp + 2) \div 5) + 1
        m == IF mp < 10 THEN mp + 3 ELSE mp - 9
    IN  <<yoe + era * 400 + (IF m <= 2 THEN 1 ELSE 0), m, d>>

\* weekday of a day number, Monday = 1 ... Sunday = 7 (1970-01-01: Thursday)
IsoWeekday(n) == ((n + 3) % 7) + 1

\* the Monday of ISO week 1 of year y: the week that holds January 4th,
\* which is the week that holds the year's first Thursday
IsoWeek1Monday(y) ==
    LET jan4 == DayNumber(y, 1, 4) IN jan4 - (IsoWeekday(jan4) - 1)

IsoWeeksIn(y) == (IsoWeek1Monday(y + 1) - IsoWeek1Monday(y)) \div 7

\* the day ISO 8601 assigns to year y, week ww, weekday d (Monday = 1)
IsoWeekDay(y, ww, d) == IsoWeek1Monday(y) + (ww - 1) * 7 + (d - 1)

\* a crate::Date that names a calendar day, and the day it names
ValidDate(date) ==
    CASE date.kind = "YMD" -> RealGregorianDay(date.year, date.month, date.day)
      [] date.kind = "Week" ->
           date.d \in 1..7 /\ date.ww >= 1 /\ date.ww <= IsoWeeksIn(date.year)
      [] date.kind = "Ordinal" -> date.ddd >= 1 /\ date.ddd <= YearLength(date.year)

NamedDay(date) ==
    CASE date.kind = "YMD" -> DayNumber(date.year, date.month, date.day)
      [] date.kind = "Week" -> IsoWeekDay(date.year, date.ww, date.d)
      [] date.kind = "Ordinal" -> DayNumber(date.year, 1, 1) + date.ddd - 1

ValidClock(time) == time.hour <= 23 /\ time.minute <= 59 /\ time.second <= 59

\* the day number of a chrono NaiveDate, through its year(), month(), day()
DayOf(naive) ==
    DayNumber(NaiveDate_year(naive), NaiveDate_month(naive), NaiveDate_day(naive))

\* -86400 < h * 3600 + m * 60 < 86400, computed in minutes so that nothing
\* leaves 32 bits
CombinedOffsetInRange(h, m) == m > -1440 - h * 60 /\ m < 1440 - h * 60

Returned(name) == pc = "done" /\ call = name

\* a date whose year is strictly inside chrono's range, so that neither it
\* nor a neighbouring day is out of the destination's reach
InsideYears(date) == date.year > MIN_YEAR /\ date.year < MAX_YEAR

\* an offset whose arithmetic stays within 32 bits
NoOverflow(time) ==
    ~offset_minutes_of(time.tz_offset_hours, time.tz_offset_minutes).overflow

(***************************************************************************)
(* The claims.                                                             *)
(***************************************************************************)
ConcreteClock(time) == time.hour = 23 /\ time.minute = 40 /\ time.second = 0

\* the local (year, month, day, hour, minute, second) a DateTime shows
LocalFields(fxed) ==
    LET local == naive_local(fxed)
    IN  <<NaiveDate_year(local.date), NaiveDate_month(local.date),
          NaiveDate_day(local.date), NaiveTime_hour(local.time),
          NaiveTime_minute(local.time), NaiveTime_second(local.time)>>

\* C1: an instant whose date, time and offset are valid converts, and the
\* result's offset east of UTC is tz_offset_hours*3600 + tz_offset_minutes*60
\* (stated for years inside the destination's range)
C1_OffsetIsHoursAndMinutes ==
    (/\ Returned("DateTime::try_from")
     /\ ValidDate(arg.date) /\ InsideYears(arg.date)
     /\ ValidClock(arg.time)
     /\ CombinedOffsetInRange(arg.time.tz_offset_hours, arg.time.tz_offset_minutes))
    => /\ res.tag = "Ok"
       /\ local_minus_utc(res.val) =
            arg.time.tz_offset_hours * 3600 + arg.time.tz_offset_minutes * 60

\* C2: a week date with d in 1..7 (Monday = 1) and a valid ISO week converts
\* to the day the ISO week rule assigns; d = 0, d = 8, ww = 0, ww > 53 fail
\* (stated for years inside the destination's range)
C2_WeekDateIsIsoDay ==
    (Returned("NaiveDate::try_from") /\ arg.kind = "Week" /\ InsideYears(arg))
    => /\ ValidDate(arg)
          => res.tag = "Ok" /\ DayOf(res.val) = IsoWeekDay(arg.year, arg.ww, arg.d)
       /\ (arg.d = 0 \/ arg.d = 8 \/ arg.ww = 0 \/ arg.ww > 53) => res.tag = "Err"

\* C3: 2023-02-08, 2023-W06-2 and 2023-039 convert to the date with year
\* 2023, month 2, day 8; and an encoding that names a calendar day converts
\* to the same date as the YMD encoding of that day (stated for years inside
\* the destination's range)
C3_EncodingsAgree ==
    (Returned("NaiveDate::try_from") /\ InsideYears(arg))
    => /\ arg \in {YMD(2023, 2, 8), Week(2023, 6, 2), Ordinal(2023, 39)}
          => /\ res.tag = "Ok"
             /\ NaiveDate_year(res.val) = 2023
             /\ NaiveDate_month(res.val) = 2
             /\ NaiveDate_day(res.val) = 8
       /\ ValidDate(arg)
          => LET ymd == CivilDay(NamedDay(arg))
             IN  res = NaiveDate_try_from(YMD(ymd[1], ymd[2], ymd[3]))

\* C4: 2023-02-08 (as YMD or as 2023-W06-2) at 23:40:00 with offset hours 1,
\* minutes 23 converts, showing 2023-02-08 23:40:00 and an offset of 3623
\* seconds; and every successful result shows the input's hour, minute and
\* second and the date its date converts to (for YMD its year, month, day),
\* not shifted by the offset
C4_LocalFieldsKept ==
    Returned("DateTime::try_from")
    => /\ (/\ arg.date \in {YMD(2023, 2, 8), Week(2023, 6, 2)}
           /\ ConcreteClock(arg.time)
           /\ arg.time.tz_offset_hours = 1
           /\ arg.time.tz_offset_minutes = 23)
          => /\ res.tag = "Ok"
             /\ LocalFields(res.val) = <<2023, 2, 8, 23, 40, 0>>
             /\ local_minus_utc(res.val) = 3623
       /\ res.tag = "Ok"
          => LET f == LocalFields(res.val)
                 date == NaiveDate_try_from(arg.date)
             IN  /\ <<f[4], f[5], f[6]>> =
                      <<arg.time.hour, arg.time.minute, arg.time.second>>
                 /\ date.tag = "Ok"
                 /\ naive_local(res.val).date = date.val
                 /\ arg.date.kind = "YMD"
                    => <<f[1], f[2], f[3]>> =
                         <<arg.date.year, arg.date.month, arg.date.day>>

C4_Witness ==
    /\ Returned("DateTime::try_from")
    /\ arg.date = Week(2023, 6, 2)
    /\ ConcreteClock(arg.time)
    /\ arg.time.tz_offset_hours = 1
    /\ arg.time.tz_offset_minutes = 23
    /\ res.tag = "Ok"
    /\ res.val.datetime.time # [secs |-> 23 * 3600 + 40 * 60]

\* C5: with a valid date and time, the conversion fails when
\* |tz_offset_hours*3600 + tz_offset_minutes*60| >= 86400 and succeeds when
\* it is less (stated for years inside the destination's range and offsets
\* whose arithmetic stays within 32 bits)
C5_OffsetBoundary ==
    (/\ Returned("DateTime::try_from")
     /\ ValidDate(arg.date) /\ InsideYears(arg.date)
     /\ ValidClock(arg.time) /\ NoOverflow(arg.time))
    => (res.tag = "Ok"
          <=> CombinedOffsetInRange(arg.time.tz_offset_hours,
                                    arg.time.tz_offset_minutes))

\* C6: every call ends in a value or in the failure value, never in a panic,
\* and an offset whose arithmetic overflows 32 bits is never accepted
C6_NeverPanicsNorWraps ==
    pc = "done"
    => /\ res.tag # "Panic"
       /\ (/\ call \in {"DateTime::try_from", "DateTime::into_fixed_offset",
                        "DateTime::into_naive"}
           /\ offset_minutes_of(arg.time.tz_offset_hours,
                                arg.time.tz_offset_minutes).overflow)
          => res.tag \in {"Err", "None"}

\* C7 as stated: a YMD triple converts iff it is a real proleptic Gregorian
\* day, whatever the year; the result shows the inputs and converts back to
\* itself
C7_YmdIffRealDay ==
    (Returned("NaiveDate::try_from") /\ arg.kind = "YMD")
    => /\ res.tag = "Ok" <=> RealGregorianDay(arg.year, arg.month, arg.day)
       /\ res.tag = "Ok"
          => /\ NaiveDate_year(res.val) = arg.year
             /\ NaiveDate_month(res.val) = arg.month
             /\ NaiveDate_day(res.val) = arg.day

\* C7 amended: a YMD triple converts iff it is a real proleptic Gregorian
\* day and its year is within the destination's range MIN_YEAR..MAX_YEAR;
\* the result shows the inputs, and its own (year, month, day) convert to an
\* equal date
C7_YmdIffRealDayInRange ==
    (Returned("NaiveDate::try_from") /\ arg.kind = "YMD")
    => /\ res.tag = "Ok"
          <=> /\ RealGregorianDay(arg.year, arg.month, arg.day)
              /\ arg.year >= MIN_YEAR /\ arg.year <= MAX_YEAR
       /\ res.tag = "Ok"
          => /\ NaiveDate_year(res.val) = arg.year
             /\ NaiveDate_month(res.val) = arg.month
             /\ NaiveDate_day(res.val) = arg.day
             /\ NaiveDate_try_from(YMD(NaiveDate_year(res.val),
                                       NaiveDate_month(res.val),
                                       NaiveDate_day(res.val))) = res

\* a leap day converted
C7_Witness ==
    /\ Returned("NaiveDate::try_from")
    /\ arg = YMD(2020, 2, 29)
    /\ res.tag = "Ok"
    /\ NaiveDate_day(res.val) = 29

\* a < b on the digits: equal up to a digit where a's is smaller
SecsLess(a, b) ==
    \E i \in 1..Len(a) : a[i] < b[i] /\ \A j \in 1..(i - 1) : a[j] = b[j]

FitsI64(secs) == secs = I64_MAX \/ SecsLess(secs, I64_MAX)

\* C8 as stated: the duration converts whenever secs fits in i64 and fails
\* only when it does not; the result's whole seconds are secs (107,740,800
\* seconds, 1247 days, 178 weeks for P3Y5M2D)
C8_SucceedsIffFitsI64 ==
    Returned("TimeDelta::try_from")
    => /\ FitsI64(arg.secs) => res.tag = "Ok"
       /\ res.tag = "Err" => ~FitsI64(arg.secs)
       /\ res.tag = "Ok" => num_seconds(res.val) = arg.secs
       /\ arg.secs = P3Y5M2D_secs
          => /\ res.tag = "Ok"
             /\ num_days(res.val) = limbs_of(1247)
             /\ num_weeks(res.val) = limbs_of(178)

\* C8 amended: the duration converts iff secs and nanos fit TimeDelta's range
\* of i64 milliseconds, that is secs < i64::MAX / 1000, or secs equal to it
\* and nanos <= 807,000,000; a larger secs does not convert, whether it fits
\* in i64 or not; the result's whole seconds are secs (107,740,800 seconds,
\* 1247 days, 178 weeks for P3Y5M2D)
C8_SucceedsIffFitsMillis ==
    Returned("TimeDelta::try_from")
    => /\ res.tag = "Ok"
          <=> \/ SecsLess(arg.secs, <<0, 9223, 3720, 3685, 4775>>)
              \/ /\ arg.secs = <<0, 9223, 3720, 3685, 4775>>
                 /\ arg.nanos <= 807 * 1000000
       /\ res.tag = "Ok" => num_seconds(res.val) = arg.secs
       /\ arg.secs = P3Y5M2D_secs
          => /\ res.tag = "Ok"
             /\ num_seconds(res.val) = <<0, 0, 1, 774, 800>>
             /\ num_days(res.val) = limbs_of(1247)
             /\ num_weeks(res.val) = limbs_of(178)

\* a duration of more seconds than TimeDelta holds, though they fit in i64,
\* is refused
C8_Witness ==
    /\ Returned("TimeDelta::try_from")
    /\ FitsI64(arg.secs)
    /\ SecsLess(TimeDelta_MAX_secs, arg.secs)
    /\ res.tag = "Err"

\* C9: a wall time converts iff hour <= 23, minute <= 59 and second <= 59;
\* the outcome is the same whatever the two offset fields hold, and a result
\* shows the input's hour, minute and second
C9_TimeIffInRange ==
    Returned("NaiveTime::try_from")
    => /\ res.tag = "Ok" <=> ValidClock(arg)
       /\ \A o \in {<<0, 0>>, <<1, 23>>, <<-30, 5000>>} :
            NaiveTime_try_from(Time(arg.hour, arg.minute, arg.second, o[1], o[2]))
              = res
       /\ res.tag = "Ok"
          => /\ NaiveTime_hour(res.val) = arg.hour
             /\ NaiveTime_minute(res.val) = arg.minute
             /\ NaiveTime_second(res.val) = arg.second

\* the last second of the day, with offset fields no zone has, converted
C9_Witness ==
    /\ Returned("NaiveTime::try_from")
    /\ arg = Time(23, 59, 59, -30, 5000)
    /\ res.tag = "Ok"

====
